---- MODULE Spec2Model ----
(***************************************************************************)
(* The shared registry behind useDynamicStore (src/src/dynamicStore.ts):   *)
(* the zustand manager state `stores`, its four mutations, the two hooks   *)
(* and the imperative helpers.                                             *)
(*                                                                         *)
(* A JavaScript object is a function whose DOMAIN is the set of its own    *)
(* keys; `undefined` is the empty tuple None and a defined value x is      *)
(* Some(x), so that `a ?? b` and `a?.f` are computed, not assumed.         *)
(***************************************************************************)
EXTENDS Integers, FiniteSets, Sequences, TLC

\* ---- bounds of the model ------------------------------------------------
MaxVal == 2
MaxSteps == 5

\* ---- JavaScript values --------------------------------------------------
None == << >>
Some(x) == << x >>

\* a ?? b
Coalesce(a, b) == IF a # None THEN a ELSE b

\* {} : the object with no own key
EmptyObj == << >>

\* { ...a, ...b }
Spread(a, b) ==
    [k \in (DOMAIN a) \cup (DOMAIN b) |-> IF k \in DOMAIN b THEN b[k] ELSE a[k]]

\* ---- types.ts -----------------------------------------------------------
\* StoreState: the states the callers of this model pass around
CounterInitial == ("value" :> 0) @@ ("step" :> 1)
FormInitial == ("value" :> 1)

\* StoreConfig: every field is optional
StoreConfig ==
    { ("initialState" :> CounterInitial),
      ("initialState" :> CounterInitial) @@ ("persistOnNavigation" :> TRUE),
      ("initialState" :> FormInitial) @@ ("resetOnUnmount" :> TRUE),
      ("persistOnNavigation" :> FALSE) }

\* the optional `config?` argument
OptStoreConfig == {None} \cup {Some(c) : c \in StoreConfig}

\* DynamicStoreRegistry: one entry of the registry
DynamicStoreRegistry(d, c, i) == [data |-> d, config |-> c, initialState |-> i]

\* the partial objects a caller writes
Partials == {EmptyObj, ("value" :> MaxVal), ("step" :> 2)}

StoreIds == {"counter", "cart"}

\* ---- optional chaining --------------------------------------------------
\* state.stores[storeId]
Lookup(s, storeId) == IF storeId \in DOMAIN s THEN Some(s[storeId]) ELSE None

\* existingStore?.data, existingStore?.config, existingStore?.initialState
OptField(e, f) == IF e = None THEN None ELSE Some(e[1][f])

\* config?.initialState, config?.resetOnUnmount, config?.persistOnNavigation
OptConfigField(config, f) ==
    IF config = None THEN None
    ELSE IF f \in DOMAIN config[1] THEN Some(config[1][f]) ELSE None

\* ---- the manager's mutations (the function handed to set) ---------------
\* setStoreData with the spread reversed: { ...data, ...currentData }
setStoreData_ReversedSpread(s, storeId, data, config) ==
    LET existingStore == Lookup(s, storeId)
        currentData ==
            Coalesce(OptField(existingStore, "data"),
                Coalesce(OptConfigField(config, "initialState"), Some(EmptyObj)))[1]
        entry ==
            DynamicStoreRegistry(
                Spread(data, currentData),
                Coalesce(config,
                    Coalesce(OptField(existingStore, "config"), Some(EmptyObj)))[1],
                Coalesce(OptConfigField(config, "initialState"),
                    Coalesce(OptField(existingStore, "initialState"), Some(EmptyObj)))[1])
    IN  Spread(s, storeId :> entry)

\* setStoreData preferring the stored initialState:
\* existingStore?.initialState ?? config?.initialState ?? {}
setStoreData_StoredInitialFirst(s, storeId, data, config) ==
    LET existingStore == Lookup(s, storeId)
        currentData ==
            Coalesce(OptField(existingStore, "data"),
                Coalesce(OptConfigField(config, "initialState"), Some(EmptyObj)))[1]
        entry ==
            DynamicStoreRegistry(
                Spread(currentData, data),
                Coalesce(config,
                    Coalesce(OptField(existingStore, "config"), Some(EmptyObj)))[1],
                Coalesce(OptField(existingStore, "initialState"),
                    Coalesce(OptConfigField(config, "initialState"), Some(EmptyObj)))[1])
    IN  Spread(s, storeId :> entry)

\* setStoreData forgetting the stored initialState: config?.initialState ?? {}
setStoreData_DropsInitial(s, storeId, data, config) ==
    LET existingStore == Lookup(s, storeId)
        currentData ==
            Coalesce(OptField(existingStore, "data"),
                Coalesce(OptConfigField(config, "initialState"), Some(EmptyObj)))[1]
        entry ==
            DynamicStoreRegistry(
                Spread(currentData, data),
                Coalesce(config,
                    Coalesce(OptField(existingStore, "config"), Some(EmptyObj)))[1],
                Coalesce(OptConfigField(config, "initialState"), Some(EmptyObj))[1])
    IN  Spread(s, storeId :> entry)

\* setStoreData forgetting the stored config: config ?? {}
setStoreData_DropsConfig(s, storeId, data, config) ==
    LET existingStore == Lookup(s, storeId)
        currentData ==
            Coalesce(OptField(existingStore, "data"),
                Coalesce(OptConfigField(config, "initialState"), Some(EmptyObj)))[1]
        entry ==
            DynamicStoreRegistry(
                Spread(currentData, data),
                Coalesce(config, Some(EmptyObj))[1],
                Coalesce(OptConfigField(config, "initialState"),
                    Coalesce(OptField(existingStore, "initialState"), Some(EmptyObj)))[1])
    IN  Spread(s, storeId :> entry)

\* setStoreData merging into the config's initialState instead of the live data:
\* config?.initialState ?? existingStore?.data ?? {}
setStoreData_StaleBase(s, storeId, data, config) ==
    LET existingStore == Lookup(s, storeId)
        currentData ==
            Coalesce(OptConfigField(config, "initialState"),
                Coalesce(OptField(existingStore, "data"), Some(EmptyObj)))[1]
        entry ==
            DynamicStoreRegistry(
                Spread(currentData, data),
                Coalesce(config,
                    Coalesce(OptField(existingStore, "config"), Some(EmptyObj)))[1],
                Coalesce(OptConfigField(config, "initialState"),
                    Coalesce(OptField(existingStore, "initialState"), Some(EmptyObj)))[1])
    IN  Spread(s, storeId :> entry)

\* setStoreData keeping a stored config: existingStore?.config ?? config ?? {}
setStoreData_KeepsStoredConfig(s, storeId, data, config) ==
    LET existingStore == Lookup(s, storeId)
        currentData ==
            Coalesce(OptField(existingStore, "data"),
                Coalesce(OptConfigField(config, "initialState"), Some(EmptyObj)))[1]
        entry ==
            DynamicStoreRegistry(
                Spread(currentData, data),
                Coalesce(OptField(existingStore, "config"),
                    Coalesce(config, Some(EmptyObj)))[1],
                Coalesce(OptConfigField(config, "initialState"),
                    Coalesce(OptField(existingStore, "initialState"), Some(EmptyObj)))[1])
    IN  Spread(s, storeId :> entry)

\* setStoreData seeding the data anew when the partial is empty:
\* a registration write starts from config?.initialState
setStoreData_ReseedsOnRegistration(s, storeId, data, config) ==
    LET existingStore == Lookup(s, storeId)
        currentData ==
            IF data = EmptyObj
            THEN Coalesce(OptConfigField(config, "initialState"),
                    Coalesce(OptField(existingStore, "data"), Some(EmptyObj)))[1]
            ELSE Coalesce(OptField(existingStore, "data"),
                    Coalesce(OptConfigField(config, "initialState"), Some(EmptyObj)))[1]
        entry ==
            DynamicStoreRegistry(
                Spread(currentData, data),
                Coalesce(config,
                    Coalesce(OptField(existingStore, "config"), Some(EmptyObj)))[1],
                Coalesce(OptConfigField(config, "initialState"),
                    Coalesce(OptField(existingStore, "initialState"), Some(EmptyObj)))[1])
    IN  Spread(s, storeId :> entry)

setStoreData(s, storeId, data, config) ==
    LET existingStore == Lookup(s, storeId)
        currentData ==
            Coalesce(OptField(existingStore, "data"),
                Coalesce(OptConfigField(config, "initialState"), Some(EmptyObj)))[1]
        entry ==
            DynamicStoreRegistry(
                Spread(currentData, data),
                Coalesce(config,
                    Coalesce(OptField(existingStore, "config"), Some(EmptyObj)))[1],
                Coalesce(OptConfigField(config, "initialState"),
                    Coalesce(OptField(existingStore, "initialState"), Some(EmptyObj)))[1])
    IN  Spread(s, storeId :> entry)

\* resetStore clearing the data: data: {}
resetStore_ToEmpty(s, storeId) ==
    LET store == Lookup(s, storeId)
    IN  IF store = None THEN s
        ELSE Spread(s, storeId :> Spread(store[1], "data" :> EmptyObj))

\* resetStore without the early return: an unknown id gets an empty entry
resetStore_CreatesEntry(s, storeId) ==
    LET store == Lookup(s, storeId)
    IN  IF store = None
        THEN Spread(s, storeId :> DynamicStoreRegistry(EmptyObj, EmptyObj, EmptyObj))
        ELSE Spread(s,
                storeId :> Spread(store[1],
                    "data" :> Spread(EmptyObj, store[1].initialState)))

\* resetStore exchanging data and initialState
resetStore_Swap(s, storeId) ==
    LET store == Lookup(s, storeId)
    IN  IF store = None THEN s
        ELSE Spread(s,
                storeId :> DynamicStoreRegistry(store[1].initialState, store[1].config,
                                                store[1].data))

\* resetStore resetting every entry, not only storeId's
resetStore_ResetsAll(s, storeId) ==
    LET store == Lookup(s, storeId)
    IN  IF store = None THEN s
        ELSE [id \in DOMAIN s |->
                Spread(s[id], "data" :> Spread(EmptyObj, s[id].initialState))]

resetStore(s, storeId) ==
    LET store == Lookup(s, storeId)
    IN  IF store = None THEN s
        ELSE Spread(s,
                storeId :> Spread(store[1],
                    "data" :> Spread(EmptyObj, store[1].initialState)))

\* resetAllStores skipping the entries flagged persistOnNavigation
resetAllStores_SkipsPersistent(s) ==
    [id \in DOMAIN s |->
        IF OptConfigField(Some(s[id].config), "persistOnNavigation") = Some(TRUE)
        THEN s[id]
        ELSE Spread(s[id], "data" :> Spread(EmptyObj, s[id].initialState))]

\* resetAllStores clearing the initialState as well
resetAllStores_ClearsInitial(s) ==
    [id \in DOMAIN s |->
        DynamicStoreRegistry(Spread(EmptyObj, s[id].initialState), s[id].config, EmptyObj)]

resetAllStores(s) ==
    [id \in DOMAIN s |->
        Spread(s[id], "data" :> Spread(EmptyObj, s[id].initialState))]

\* resetNonPersistentStores without the test of the flag
resetNonPersistentStores_IgnoresFlag(s) ==
    [id \in DOMAIN s |->
        Spread(s[id], "data" :> Spread(EmptyObj, s[id].initialState))]

\* resetNonPersistentStores leaving the persistent entries out of `next`
resetNonPersistentStores_DropsPersistent(s) ==
    [id \in {i \in DOMAIN s :
                OptConfigField(Some(s[i].config), "persistOnNavigation") # Some(TRUE)} |->
        Spread(s[id], "data" :> Spread(EmptyObj, s[id].initialState))]

resetNonPersistentStores(s) ==
    [id \in DOMAIN s |->
        IF OptConfigField(Some(s[id].config), "persistOnNavigation") = Some(TRUE)
        THEN s[id]
        ELSE Spread(s[id], "data" :> Spread(EmptyObj, s[id].initialState))]

\* ---- functional updaters passed to setData ------------------------------
\* prev => ({ value: prev.value + prev.step })
Updaters == {"addStep"}

Defined(updater, prev) ==
    updater = "addStep" =>
        /\ {"value", "step"} \subseteq DOMAIN prev
        /\ prev.value + prev.step <= MaxVal

ApplyUpdater(updater, prev) ==
    IF updater = "addStep"
    THEN ("value" :> (prev.value + prev.step))
    ELSE Spread(EmptyObj, prev)

\* ---- state --------------------------------------------------------------
VARIABLES
    stores,        \* useDynamicStoresManager's state.stores
    comps,         \* the mounted hook instances and what their closures hold
    last,          \* the operation that produced this state, and the registry before it
    writes,        \* per id, the config argument of every setStoreData call so far
    folded,        \* per id, the partials written to it, merged left to right
    steps          \* the number of operations so far

vars == << stores, comps, last, writes, folded, steps >>

Comps == {"c1", "c2"}

\* c2 is a consumer of useDynamicStoreWithCleanup, c1 of useDynamicStore
WithCleanup(c) == c = "c2"

\* the (storeId, config) each component calls its hook with
CallSites(c) ==
    IF WithCleanup(c)
    THEN {"counter"} \X {Some(("initialState" :> FormInitial) @@ ("resetOnUnmount" :> TRUE)),
                         Some(("initialState" :> FormInitial) @@ ("resetOnUnmount" :> FALSE))}
    ELSE StoreIds \X OptStoreConfig

Unmounted ==
    [phase |-> "unmounted", storeId |-> "", config |-> None, storesManager |-> EmptyObj,
     cleanupConfig |-> None]

Record(op, call, c, storeId, data, config, prev) ==
    [op |-> op, call |-> call, comp |-> c, storeId |-> storeId, data |-> data,
     config |-> config, currentData |-> prev, pre |-> stores,
     backToBack |-> (op = "setDataFn" /\ last.op = "setDataFn" /\ last.comp = c)]

Init ==
    /\ stores = EmptyObj
    /\ comps = [c \in Comps |-> Unmounted]
    /\ last = [op |-> "init", call |-> "none", comp |-> "", storeId |-> "",
               data |-> EmptyObj, config |-> None, currentData |-> None, pre |-> EmptyObj,
               backToBack |-> FALSE]
    /\ writes = EmptyObj
    /\ folded = EmptyObj
    /\ steps = 0

\* ---- calls into the manager ---------------------------------------------
\* storesManager.setStoreData(storeId, data, config): set((state) => ...)
CallSetStoreData(storeId, data, config) ==
    /\ stores' = setStoreData(stores, storeId, data, config)
    /\ writes' =
          Spread(writes,
              storeId :> Append(IF storeId \in DOMAIN writes THEN writes[storeId] ELSE << >>,
                                config))
    /\ folded' =
          LET seed == IF storeId \in DOMAIN folded THEN folded[storeId]
                      ELSE IF config # None /\ "initialState" \in DOMAIN config[1]
                      THEN config[1].initialState
                      ELSE EmptyObj
          IN  Spread(folded,
                  storeId :> [k \in (DOMAIN seed) \cup (DOMAIN data) |->
                                 IF k \in DOMAIN data THEN data[k] ELSE seed[k]])

\* a reset starts the merge of an id afresh from the data it leaves
CallReset(s) ==
    /\ stores' = s
    /\ folded' = [id \in DOMAIN s |-> s[id].data]
    /\ UNCHANGED writes

Tick ==
    /\ steps < MaxSteps
    /\ steps' = steps + 1

\* ---- imperative helpers -------------------------------------------------
updateDynamicStore(storeId, data) ==
    /\ Tick
    /\ CallSetStoreData(storeId, data, None)
    /\ last' = Record("updateDynamicStore", "setStoreData", "", storeId, data, None, None)
    /\ UNCHANGED comps

resetDynamicStore(storeId) ==
    /\ Tick
    /\ CallReset(resetStore(stores, storeId))
    /\ last' = Record("resetDynamicStore", "resetStore", "", storeId, EmptyObj, None, None)
    /\ UNCHANGED comps

resetAllDynamicStores ==
    /\ Tick
    /\ CallReset(resetAllStores(stores))
    /\ last' = Record("resetAllDynamicStores", "resetAllStores", "", "", EmptyObj, None, None)
    /\ UNCHANGED comps

resetNonPersistentDynamicStores ==
    /\ Tick
    /\ CallReset(resetNonPersistentStores(stores))
    /\ last' = Record("resetNonPersistentDynamicStores", "resetNonPersistentStores",
                      "", "", EmptyObj, None, None)
    /\ UNCHANGED comps

\* ---- useDynamicStore ----------------------------------------------------
\* const storeRegistry = storesManager.stores[storeId]
storeRegistry(c) == Lookup(comps[c].storesManager, comps[c].storeId)

\* the read without the fallback to the config: storeRegistry?.data ?? {}
ReadData_NoConfigFallback(registry, config) ==
    Coalesce(OptField(registry, "data"), Some(EmptyObj))[1]

\* const data = storeRegistry?.data ?? config?.initialState ?? {}
ReadData(registry, config) ==
    Coalesce(OptField(registry, "data"),
        Coalesce(OptConfigField(config, "initialState"), Some(EmptyObj)))[1]

\* the render of the hook: the body of useDynamicStore up to its return
Render(c, storeId, config) ==
    /\ Tick
    /\ \/ /\ comps[c].phase = "unmounted"
          /\ comps' = [comps EXCEPT ![c] =
                [phase |-> "rendered", storeId |-> storeId, config |-> config,
                 storesManager |-> stores, cleanupConfig |-> None]]
       \/ /\ comps[c].phase = "mounted"
          /\ storeId = comps[c].storeId
          /\ config = comps[c].config
          /\ comps[c].storesManager # stores
          /\ comps' = [comps EXCEPT ![c].storesManager = stores]
    /\ last' = Record("render", "none", c, storeId, EmptyObj, config,
                      Some(ReadData(Lookup(stores, storeId), config)))
    /\ UNCHANGED << stores, writes, folded >>

\* the effects of the first commit:
\* useEffect(() => { if (!storeRegistry && config?.initialState !== undefined) ... }, [storeId])
\* and, in useDynamicStoreWithCleanup, the effect that returns the cleanup, whose
\* closure holds the config of this render
MountEffect(c) ==
    /\ Tick
    /\ comps[c].phase = "rendered"
    /\ comps' = [comps EXCEPT ![c].phase = "mounted",
                              ![c].cleanupConfig =
                                  IF WithCleanup(c) THEN comps[c].config ELSE None]
    /\ IF storeRegistry(c) = None /\ OptConfigField(comps[c].config, "initialState") # None
       THEN /\ CallSetStoreData(comps[c].storeId, EmptyObj, comps[c].config)
            /\ last' = Record("mountEffect", "setStoreData", c, comps[c].storeId,
                              EmptyObj, comps[c].config, None)
       ELSE /\ UNCHANGED << stores, writes, folded >>
            /\ last' = Record("mountEffect", "none", c, comps[c].storeId,
                              EmptyObj, comps[c].config, None)

\* setData(updater) with an object
SetData(c, updater) ==
    /\ Tick
    /\ comps[c].phase = "mounted"
    /\ CallSetStoreData(comps[c].storeId, updater, comps[c].config)
    /\ last' = Record("setData", "setStoreData", c, comps[c].storeId, updater,
                      comps[c].config, None)
    /\ UNCHANGED comps

\* setData(updater) with a function
SetDataFn(c, updater) ==
    LET currentData == ReadData(storeRegistry(c), comps[c].config)
        updates == ApplyUpdater(updater, currentData)
    IN  /\ Tick
        /\ comps[c].phase = "mounted"
        /\ Defined(updater, currentData)
        /\ CallSetStoreData(comps[c].storeId, updates, comps[c].config)
        /\ last' = Record("setDataFn", "setStoreData", c, comps[c].storeId, updates,
                          comps[c].config, Some(currentData))
        /\ UNCHANGED comps

\* reset()
Reset(c) ==
    /\ Tick
    /\ comps[c].phase = "mounted"
    /\ CallReset(resetStore(stores, comps[c].storeId))
    /\ last' = Record("reset", "resetStore", c, comps[c].storeId, EmptyObj, None, None)
    /\ UNCHANGED comps

\* ---- useDynamicStoreWithCleanup -----------------------------------------
\* the cleanup the second effect returned: if (config?.resetOnUnmount === true) reset()
\* with the config and the reset of the render that installed it
RunCleanup(c, op) ==
    IF OptConfigField(comps[c].cleanupConfig, "resetOnUnmount") = Some(TRUE)
    THEN /\ CallReset(resetStore(stores, comps[c].storeId))
         /\ last' = Record(op, "resetStore", c, comps[c].storeId, EmptyObj,
                           comps[c].config, None)
    ELSE /\ UNCHANGED << stores, writes, folded >>
         /\ last' = Record(op, "none", c, comps[c].storeId, EmptyObj,
                           comps[c].config, None)

\* an unmount that runs no cleanup
Unmount_NoCleanup(c) ==
    /\ Tick
    /\ comps[c].phase = "mounted"
    /\ comps' = [comps EXCEPT ![c] = Unmounted]
    /\ UNCHANGED << stores, writes, folded >>
    /\ last' = Record("unmount", "none", c, comps[c].storeId, EmptyObj,
                      comps[c].config, None)

\* the component unmounts: the cleanup of the second effect runs
Unmount(c) ==
    /\ Tick
    /\ comps[c].phase = "mounted"
    /\ comps' = [comps EXCEPT ![c] = Unmounted]
    /\ IF WithCleanup(c)
       THEN RunCleanup(c, "unmount")
       ELSE /\ UNCHANGED << stores, writes, folded >>
            /\ last' = Record("unmount", "none", c, comps[c].storeId, EmptyObj,
                              comps[c].config, None)

\* a mounted consumer of useDynamicStoreWithCleanup renders again with another
\* config and the same storeId, and the commit follows: the second effect's
\* dependencies are [storeId, config?.resetOnUnmount], so when resetOnUnmount
\* differs from the one of the installed effect React runs that effect's
\* cleanup and installs the effect of this render
Rerender(c, storeId, config) ==
    /\ Tick
    /\ WithCleanup(c)
    /\ comps[c].phase = "mounted"
    /\ storeId = comps[c].storeId
    /\ config # comps[c].config
    /\ IF OptConfigField(config, "resetOnUnmount")
            # OptConfigField(comps[c].cleanupConfig, "resetOnUnmount")
       THEN /\ comps' = [comps EXCEPT ![c].config = config,
                                      ![c].storesManager = stores,
                                      ![c].cleanupConfig = config]
            /\ RunCleanup(c, "rerender")
       ELSE /\ comps' = [comps EXCEPT ![c].config = config,
                                      ![c].storesManager = stores]
            /\ UNCHANGED << stores, writes, folded >>
            /\ last' = Record("rerender", "none", c, comps[c].storeId, EmptyObj,
                              config, None)

\* ---- the program --------------------------------------------------------
Next ==
    \/ \E storeId \in StoreIds, data \in Partials : updateDynamicStore(storeId, data)
    \/ \E storeId \in StoreIds : resetDynamicStore(storeId)
    \/ resetAllDynamicStores
    \/ resetNonPersistentDynamicStores
    \/ \E c \in Comps : \E site \in CallSites(c) : Render(c, site[1], site[2])
    \/ \E c \in Comps : MountEffect(c)
    \/ \E c \in Comps, updater \in Partials : SetData(c, updater)
    \/ \E c \in Comps, updater \in Updaters : SetDataFn(c, updater)
    \/ \E c \in Comps : Reset(c)
    \/ \E c \in Comps : Unmount(c)
    \/ \E c \in Comps : \E site \in CallSites(c) : Rerender(c, site[1], site[2])

Spec == Init /\ [][Next]_vars

\* ---- what the claims speak of -------------------------------------------
\* the registry before the last operation, and the entry it was about
Pre == last.pre
WasRegistered == last.storeId \in DOMAIN Pre
Wrote == last.call = "setStoreData"
DidReset == last.call = "resetStore"

\* the initialState of the first setStoreData call on id
FirstInitial(id) ==
    IF writes[id][1] # None /\ "initialState" \in DOMAIN writes[id][1][1]
    THEN writes[id][1][1].initialState
    ELSE EmptyObj

\* the later setStoreData calls on id whose config carried an initialState
LaterGiven(id) ==
    {i \in 2..Len(writes[id]) :
        writes[id][i] # None /\ "initialState" \in DOMAIN writes[id][i][1]}

Latest(S) == CHOOSE i \in S : \A j \in S : j <= i

\* C1: two back-to-back functional updates through the same setData (no render
\* in between) leave data = f2 applied to the state f1 produced: the second
\* updater receives the registry data of the moment of its call; registering
\* "counter" with {value:0, step:1} and adding step twice gives {value:2, step:1}.
C1_BackToBackUpdatersSeeLatest ==
    (last.op = "setDataFn" /\ last.backToBack) =>
        LET D == Pre[last.storeId].data
        IN  /\ last.currentData = Some(D)
            /\ stores[last.storeId].data = Spread(D, ApplyUpdater("addStep", D))
            /\ (/\ steps = 4
                /\ last.storeId = "counter"
                /\ writes["counter"] =
                      [i \in 1..3 |-> Some("initialState" :> CounterInitial)])
               => stores["counter"].data = ("value" :> 2) @@ ("step" :> 1)

\* C2: setStoreData(id, U) on a registered id with data D leaves data equal to
\* the shallow merge: U's value on U's keys, D's value on D's other keys, and no
\* other key.
C2_ShallowMerge ==
    (Wrote /\ WasRegistered) =>
        LET D == Pre[last.storeId].data
            U == last.data
            R == stores[last.storeId].data
        IN  /\ DOMAIN R = (DOMAIN D) \cup (DOMAIN U)
            /\ \A k \in DOMAIN U : R[k] = U[k]
            /\ \A k \in (DOMAIN D) \ (DOMAIN U) : R[k] = D[k]

C2_Witness ==
    /\ Wrote /\ WasRegistered
    /\ \E k \in (DOMAIN last.data) \cap (DOMAIN Pre[last.storeId].data) :
          last.data[k] # Pre[last.storeId].data[k]
    /\ (DOMAIN Pre[last.storeId].data) \ (DOMAIN last.data) # {}

\* C3: setStoreData(id, U, config?) resolves the entry's fields: the merge base
\* is the existing data, else config.initialState, else {}; initialState is
\* config.initialState, else the existing initialState, else {}; config is the
\* passed config, else the existing config, else {}.
C3_FieldResolution ==
    Wrote =>
        LET id == last.storeId
            given == last.config # None
            givenInitial == given /\ "initialState" \in DOMAIN last.config[1]
            base == IF WasRegistered THEN Pre[id].data
                    ELSE IF givenInitial THEN last.config[1].initialState
                    ELSE EmptyObj
        IN  /\ id \in DOMAIN stores
            /\ DOMAIN stores[id].data = (DOMAIN base) \cup (DOMAIN last.data)
            /\ \A k \in DOMAIN stores[id].data :
                  stores[id].data[k] = IF k \in DOMAIN last.data THEN last.data[k] ELSE base[k]
            /\ stores[id].initialState =
                  IF givenInitial THEN last.config[1].initialState
                  ELSE IF WasRegistered THEN Pre[id].initialState
                  ELSE EmptyObj
            /\ stores[id].config =
                  IF given THEN last.config[1]
                  ELSE IF WasRegistered THEN Pre[id].config
                  ELSE EmptyObj

\* a write with a config whose initialState differs from the stored one
C3_Witness ==
    /\ Wrote /\ WasRegistered
    /\ last.config # None
    /\ "initialState" \in DOMAIN last.config[1]
    /\ last.config[1].initialState # Pre[last.storeId].initialState
    /\ Pre[last.storeId].initialState # EmptyObj

\* C4: resetStore(id) on a registered id leaves data equal to the entry's
\* initialState as stored at the moment of the reset.
C4_ResetToStoredInitial ==
    (DidReset /\ WasRegistered) =>
        /\ stores[last.storeId].data = Pre[last.storeId].initialState
        /\ stores[last.storeId].initialState = Pre[last.storeId].initialState

C4_Witness ==
    /\ DidReset /\ WasRegistered
    /\ Pre[last.storeId].data # Pre[last.storeId].initialState
    /\ Pre[last.storeId].initialState # EmptyObj

\* C5 as stated: resetStore(id) yields the initialState captured when id was
\* first registered, whatever setStoreData calls came in between.
C5_ResetToFirstInitial ==
    (DidReset /\ WasRegistered) =>
        stores[last.storeId].data = FirstInitial(last.storeId)

\* C5 amended: resetStore(id) yields the initialState captured when id was first
\* registered unless a later setStoreData call passed a config carrying an
\* initialState, and then that of the latest such call; calls that carry no
\* initialState do not affect the result.
C5_ResetToLatestGivenInitial ==
    (DidReset /\ WasRegistered) =>
        LET id == last.storeId
        IN  stores[id].data =
                IF LaterGiven(id) = {} THEN FirstInitial(id)
                ELSE writes[id][Latest(LaterGiven(id))][1].initialState

\* a reset after a write without config, of an id registered with an initialState
C5_Witness ==
    /\ DidReset /\ WasRegistered
    /\ LaterGiven(last.storeId) = {}
    /\ FirstInitial(last.storeId) # EmptyObj
    /\ \E i \in 2..Len(writes[last.storeId]) : writes[last.storeId][i] = None
    /\ Pre[last.storeId].data # FirstInitial(last.storeId)

\* C6: resetNonPersistentStores leaves every entry whose config.persistOnNavigation
\* is exactly true unchanged, and sets the data of every other entry to its
\* initialState.
Persistent(entry) ==
    "persistOnNavigation" \in DOMAIN entry.config /\ entry.config.persistOnNavigation = TRUE

C6_PersistenceFilter ==
    last.call = "resetNonPersistentStores" =>
        /\ DOMAIN stores = DOMAIN Pre
        /\ \A id \in DOMAIN Pre :
              IF Persistent(Pre[id])
              THEN stores[id] = Pre[id]
              ELSE stores[id].data = Pre[id].initialState

C6_Witness ==
    /\ last.call = "resetNonPersistentStores"
    /\ \E a \in DOMAIN Pre :
          /\ Persistent(Pre[a])
          /\ Pre[a].data # Pre[a].initialState
          /\ stores[a].data = Pre[a].data
    /\ \E b \in DOMAIN Pre :
          /\ ~Persistent(Pre[b])
          /\ Pre[b].data # Pre[b].initialState
          /\ stores[b].data = Pre[b].initialState

\* C7: resetAllStores sets the data of every entry to its initialState whatever
\* its persistOnNavigation flag; after it every entry has data = initialState.
C7_ResetAll ==
    last.call = "resetAllStores" =>
        /\ DOMAIN stores = DOMAIN Pre
        /\ \A id \in DOMAIN Pre :
              /\ stores[id].data = Pre[id].initialState
              /\ stores[id].data = stores[id].initialState

C7_Witness ==
    /\ last.call = "resetAllStores"
    /\ \E a \in DOMAIN Pre : Persistent(Pre[a]) /\ Pre[a].data # Pre[a].initialState
    /\ \E b \in DOMAIN Pre : ~Persistent(Pre[b]) /\ Pre[b].data # Pre[b].initialState

\* C8: a setStoreData call without config never changes the stored initialState
\* or config of a registered entry; when a write without config and a write whose
\* config supplies initialState are the first two writes to an id, in either
\* order the entry ends with the initialState and config of the write with config.
C8_NoConfigKeepsInitialAndConfig ==
    /\ (Wrote /\ last.config = None /\ WasRegistered) =>
          /\ stores[last.storeId].initialState = Pre[last.storeId].initialState
          /\ stores[last.storeId].config = Pre[last.storeId].config
    /\ (Wrote /\ Len(writes[last.storeId]) = 2) =>
          \A i, j \in 1..2 :
              (/\ writes[last.storeId][i] = None
               /\ writes[last.storeId][j] # None
               /\ "initialState" \in DOMAIN writes[last.storeId][j][1])
              => /\ stores[last.storeId].initialState =
                       writes[last.storeId][j][1].initialState
                 /\ stores[last.storeId].config = writes[last.storeId][j][1]

\* the write with config came first, the write without config second
C8_Witness ==
    /\ Wrote /\ last.config = None
    /\ Len(writes[last.storeId]) = 2
    /\ writes[last.storeId][1] # None
    /\ "initialState" \in DOMAIN writes[last.storeId][1][1]
    /\ last.data # EmptyObj
    /\ stores[last.storeId].config # EmptyObj

\* C9: reading an unregistered id through useDynamicStore yields the config's
\* initialState (the empty mapping when none is supplied), and the read changes
\* nothing in the registry: no entry is created by the read.
C9_UnregisteredRead ==
    (last.op = "render" /\ ~WasRegistered) =>
        /\ last.currentData =
              Some(IF last.config # None /\ "initialState" \in DOMAIN last.config[1]
                   THEN last.config[1].initialState
                   ELSE EmptyObj)
        /\ stores = Pre
        /\ last.storeId \notin DOMAIN stores

C9_Witness ==
    /\ last.op = "render" /\ ~WasRegistered
    /\ last.currentData = Some(CounterInitial)
    /\ stores # EmptyObj

\* C10: resetStore(id) on an id that is not registered is a no-op: the registry
\* after equals the registry before, and no entry for id is created.
C10_ResetUnknownIsNoOp ==
    (DidReset /\ ~WasRegistered) =>
        /\ stores = Pre
        /\ last.storeId \notin DOMAIN stores

C10_Witness ==
    /\ DidReset /\ ~WasRegistered
    /\ stores # EmptyObj

\* C11: when a consumer of useDynamicStoreWithCleanup whose config has
\* resetOnUnmount true unmounts, the entry's data equals its initialState once
\* the cleanup has run, and the entry is still registered with its initialState
\* intact.
C11_UnmountCleanupResets ==
    (/\ last.op = "unmount"
     /\ WithCleanup(last.comp)
     /\ OptConfigField(last.config, "resetOnUnmount") = Some(TRUE)
     /\ WasRegistered)
    => /\ last.storeId \in DOMAIN stores
       /\ stores[last.storeId].data = stores[last.storeId].initialState
       /\ stores[last.storeId].initialState = Pre[last.storeId].initialState

C11_Witness ==
    /\ last.op = "unmount"
    /\ WithCleanup(last.comp)
    /\ OptConfigField(last.config, "resetOnUnmount") = Some(TRUE)
    /\ WasRegistered
    /\ Pre[last.storeId].data # Pre[last.storeId].initialState
    /\ Pre[last.storeId].initialState # EmptyObj

\* C20: the cleanup of useDynamicStoreWithCleanup resets the store only at
\* unmount: no re-render of a mounted consumer with the same storeId, not even
\* one where config.resetOnUnmount changes from true to false, calls resetStore.
C20_ResetOnlyAtUnmount ==
    last.op = "rerender" => (last.call # "resetStore" /\ stores = Pre)

\* C12: registry writes are applied in invocation order with no lost update:
\* each setStoreData call merges into the registry all earlier calls produced,
\* so the data of an id is the left-to-right fold of the shallow merges of the
\* partials written to it.
C12_WritesFoldInOrder ==
    /\ DOMAIN folded = DOMAIN stores
    /\ \A id \in DOMAIN stores : stores[id].data = folded[id]

\* a third write to an id whose earlier writes had already changed its data
C12_Witness ==
    /\ Wrote /\ WasRegistered
    /\ Len(writes[last.storeId]) >= 3
    /\ stores[last.storeId].data # Pre[last.storeId].data
    /\ Pre[last.storeId].data # Pre[last.storeId].initialState

\* C13: no operation removes an entry: the set of registered ids never loses a
\* member, and the three resets leave that set exactly unchanged.
C13_NoEntryRemoved ==
    /\ DOMAIN Pre \subseteq DOMAIN stores
    /\ last.call \in {"resetStore", "resetAllStores", "resetNonPersistentStores"}
          => DOMAIN stores = DOMAIN Pre

C13_Witness ==
    /\ last.call \in {"resetAllStores", "resetNonPersistentStores"}
    /\ Cardinality(DOMAIN Pre) = 2
    /\ \E id \in DOMAIN Pre : Persistent(Pre[id])

\* C14: resetStore is idempotent: for every registry state and id, resetStore(id)
\* twice in a row leaves the registry equal to the registry after one call.
C14_ResetIdempotent ==
    /\ \A id \in StoreIds :
          resetStore(resetStore(stores, id), id) = resetStore(stores, id)
    /\ DidReset => resetStore(stores, last.storeId) = stores

\* a reset that changed the registry
C14_Witness ==
    /\ DidReset /\ WasRegistered
    /\ stores # Pre
    /\ stores[last.storeId].data # EmptyObj

\* C15: an entry's initialState changes only in a setStoreData step whose config
\* carries an initialState; setStoreData without config or with a config that
\* omits initialState, and the three resets, leave every initialState unchanged.
C15_InitialStateChangesOnlyByConfig ==
    \A id \in (DOMAIN Pre) \cap (DOMAIN stores) :
        stores[id].initialState # Pre[id].initialState
        => /\ Wrote
           /\ last.storeId = id
           /\ last.config # None
           /\ "initialState" \in DOMAIN last.config[1]

\* a write whose config omits initialState, on an entry that has one
C15_Witness ==
    /\ Wrote /\ WasRegistered
    /\ last.config # None
    /\ "initialState" \notin DOMAIN last.config[1]
    /\ Pre[last.storeId].initialState # EmptyObj
    /\ stores[last.storeId].initialState = Pre[last.storeId].initialState

\* the shallow merge of the stored data with the partial of the last write
MergedIntoStored ==
    LET D == Pre[last.storeId].data
        R == stores[last.storeId].data
    IN  /\ DOMAIN R = (DOMAIN D) \cup (DOMAIN last.data)
        /\ \A k \in DOMAIN R : R[k] = IF k \in DOMAIN last.data THEN last.data[k] ELSE D[k]

\* C16 as stated: setStoreData with a config on a registered id reuses the entry
\* (its data is the merge base) and takes the stored config from the caller only
\* when the entry has no config set; a config already set, such as one with
\* persistOnNavigation true, is kept, so the entry stays exempt from
\* resetNonPersistentStores.
C16_StoredConfigKept ==
    (Wrote /\ WasRegistered /\ last.config # None) =>
        /\ MergedIntoStored
        /\ stores[last.storeId].config =
              IF Pre[last.storeId].config # EmptyObj THEN Pre[last.storeId].config
              ELSE last.config[1]
        /\ Persistent(Pre[last.storeId]) => Persistent(stores[last.storeId])

\* C16 amended: setStoreData with a config on a registered id reuses the entry
\* (its data is the merge base) and replaces the stored config by the caller's
\* config, whether or not one was set; the entry is exempt from
\* resetNonPersistentStores afterwards exactly when the caller's config has
\* persistOnNavigation true.
C16_CallerConfigReplaces ==
    (Wrote /\ WasRegistered /\ last.config # None) =>
        /\ MergedIntoStored
        /\ stores[last.storeId].config = last.config[1]
        /\ Persistent(stores[last.storeId])
              <=> OptConfigField(last.config, "persistOnNavigation") = Some(TRUE)

\* a persistent entry loses its exemption to a write with another config
C16_Witness ==
    /\ Wrote /\ WasRegistered /\ last.config # None
    /\ Persistent(Pre[last.storeId])
    /\ ~Persistent(stores[last.storeId])

\* C17: the mount effect registers the entry exactly when the id was not
\* registered at render time and the config supplies an initialState; it then
\* writes an empty partial with the config, so the new entry has
\* data = initialState = config.initialState; otherwise mounting writes nothing.
C17_MountRegistersFromConfig ==
    last.op = "mountEffect" =>
        LET id == last.storeId
            registeredAtRender == id \in DOMAIN comps[last.comp].storesManager
            givenInitial == OptConfigField(last.config, "initialState")
        IN  /\ Wrote <=> (~registeredAtRender /\ givenInitial # None)
            /\ Wrote => /\ last.data = EmptyObj
                        /\ last.config = comps[last.comp].config
                        /\ stores[id].initialState = givenInitial[1]
                        /\ stores[id].data = givenInitial[1]
            /\ ~Wrote => stores = Pre

\* C18: setStoreData(id, ...) and resetStore(id) change at most the entry of id:
\* every other entry is identical before and after, in the one step that
\* replaces the registry.
C18_OtherEntriesUntouched ==
    (Wrote \/ DidReset) =>
        /\ DOMAIN stores \subseteq (DOMAIN Pre) \cup {last.storeId}
        /\ \A other \in (DOMAIN Pre) \ {last.storeId} :
              other \in DOMAIN stores /\ stores[other] = Pre[other]

C18_Witness ==
    /\ Wrote \/ DidReset
    /\ stores # Pre
    /\ \E other \in (DOMAIN Pre) \ {last.storeId} :
          Pre[other].data # Pre[other].initialState

\* C19: in every reachable registry state every key of an entry's initialState
\* is a key of its data, whatever the order of writes with and without config.
C19_DataCoversInitialState ==
    \A id \in DOMAIN stores :
        DOMAIN stores[id].initialState \subseteq DOMAIN stores[id].data

\* C21: a registration write (setStoreData with an empty partial and a config)
\* on an id that is already registered leaves the entry's data unchanged: when
\* another write lands between a component's render and its mount effect, or two
\* components mount with the same id in one commit, the registration neither
\* overwrites nor loses data already written.
C21_RegistrationKeepsData ==
    (Wrote /\ WasRegistered /\ last.data = EmptyObj /\ last.config # None) =>
        /\ stores[last.storeId].data = Pre[last.storeId].data
        /\ \A other \in (DOMAIN Pre) \ {last.storeId} :
              stores[other].data = Pre[other].data

\* a mount effect registering over data that differs from its config's initialState
C21_Witness ==
    /\ last.op = "mountEffect"
    /\ Wrote /\ WasRegistered
    /\ Pre[last.storeId].data # EmptyObj
    /\ Pre[last.storeId].data # last.config[1].initialState
    /\ stores[last.storeId].initialState = last.config[1].initialState

====
